---------------------------- MODULE Spec2Model ----------------------------
(***************************************************************************)
(* Kinematics of the Triangula holonomic chassis                           *)
(* (src/python/triangula/chassis.py): the geometric utilities, the Pose    *)
(* integration and the HoloChassis / OmniWheel inverse and forward         *)
(* kinematics.                                                             *)
(*                                                                         *)
(* Numbers.  The code computes on Python floats.  The model computes on    *)
(* exact rationals <<n, d>> (d > 0, lowest terms), i.e. the real-number    *)
(* reading of every expression, without rounding.  math.pi is itself a     *)
(* rational constant of the float type; the model takes the rational       *)
(* 22/7 for it.  sin and cos are taken on the multiples of pi/2, where     *)
(* their real values are 0, 1 and -1; every angle the model feeds to them  *)
(* is such a multiple.                                                     *)
(*                                                                         *)
(* Values.  None is the empty tuple.  A Vector2 / Point2 is a pair         *)
(* <<x, y>> of rationals.  An exception is recorded in the field "raised"  *)
(* of the call record.                                                     *)
(***************************************************************************)
EXTENDS Integers, Sequences, FiniteSets, TLC

VARIABLES
    pc,          \* position of the driving script
    wheels,      \* the OmniWheel objects constructed so far (a list)
    wheel_args,  \* history: the constructor arguments that built each of them
    chassis,     \* the HoloChassis object, or None
    pose,        \* the current Pose object, or None
    steps,       \* number of calculate_pose_change calls made so far
    last_speeds, \* record of the last get_wheel_speeds call, or None
    call         \* record of the last call made: its arguments and outcome

vars == <<pc, wheels, wheel_args, chassis, pose, steps, last_speeds, call>>

None == <<>>

-----------------------------------------------------------------------------
(* Exact rational arithmetic standing for Python's float operators.        *)

Abs(i) == IF i < 0 THEN -i ELSE i

RECURSIVE GCD(_, _)
GCD(i, j) == IF j = 0 THEN i ELSE GCD(j, i % j)

Norm(n, d) ==
    LET s == IF d < 0 THEN -1 ELSE 1
        g == GCD(Abs(n), Abs(d))
    IN  <<(s * n) \div g, (s * d) \div g>>

R(i) == <<i, 1>>
Zero == <<0, 1>>
One == <<1, 1>>

RNeg(a) == <<-a[1], a[2]>>

RAdd(a, b) ==
    LET g == GCD(a[2], b[2])
    IN  Norm(a[1] * (b[2] \div g) + b[1] * (a[2] \div g), a[2] * (b[2] \div g))

RSub(a, b) == RAdd(a, RNeg(b))

RMul(a, b) ==
    LET g1 == GCD(Abs(a[1]), b[2])
        g2 == GCD(Abs(b[1]), a[2])
    IN  Norm((a[1] \div g1) * (b[1] \div g2), (a[2] \div g2) * (b[2] \div g1))

\* a / b for b # 0; the callers guard b = 0 (Python raises ZeroDivisionError)
RDiv(a, b) == RMul(a, Norm(b[2], b[1]))

RLt(a, b) ==
    LET g == GCD(a[2], b[2])
    IN  a[1] * (b[2] \div g) < b[1] * (a[2] \div g)

RLe(a, b) == ~RLt(b, a)

RAbs(a) == <<Abs(a[1]), a[2]>>

\* the second argument, whichever is smaller (scale = wheel_scale)
RMin_second(a, b) == b

RMin(a, b) == IF RLt(b, a) THEN b ELSE a

\* a % m for m > 0: the result has the sign of the divisor, 0 <= a % m < m
RMod(a, m) ==
    LET q == RDiv(a, m)
    IN  RSub(a, RMul(m, R(q[1] \div q[2])))

\* math.pi
pi == <<22, 7>>

HalfPi == RDiv(pi, R(2))

TwoPi == RMul(R(2), pi)

\* the number of quarter turns in an angle that is a multiple of pi/2
Quarter(angle) == RDiv(angle, HalfPi)[1] % 4

sin(angle) == R(<<0, 1, 0, -1>>[Quarter(angle) + 1])

cos(angle) == R(<<1, 0, -1, 0>>[Quarter(angle) + 1])

-----------------------------------------------------------------------------
(* euclid.Vector2 / euclid.Point2                                          *)

Vector2(x, y) == <<x, y>>

Point2(x, y) == <<x, y>>

V(i, j) == <<R(i), R(j)>>

VAdd(u, v) == <<RAdd(u[1], v[1]), RAdd(u[2], v[2])>>

VSub(u, v) == <<RSub(u[1], v[1]), RSub(u[2], v[2])>>

VScale(u, k) == <<RMul(u[1], k), RMul(u[2], k)>>

VDivide(u, k) == <<RDiv(u[1], k), RDiv(u[2], k)>>

\* Vector2.cross(): the vector turned a quarter turn clockwise, (y, -x)
cross(u) == <<u[2], RNeg(u[1])>>

dot(u, v) == RAdd(RMul(u[1], v[1]), RMul(u[2], v[2]))

magnitude_squared(u) == dot(u, u)

-----------------------------------------------------------------------------
(* Geometric utilities                                                     *)

rotate_point(point, angle, origin) ==
    LET o == IF origin = None THEN Point2(Zero, Zero) ELSE origin
        s == sin(angle)
        c == cos(angle)
        dx == RSub(point[1], o[1])
        dy == RSub(point[2], o[2])
    IN  Point2(RAdd(RSub(RMul(c, dx), RMul(s, dy)), o[1]),
               RAdd(RAdd(RMul(s, dx), RMul(c, dy)), o[2]))

rotate_vector(vector, angle, origin) ==
    LET o == IF origin = None THEN Point2(Zero, Zero) ELSE origin
        s == sin(angle)
        c == cos(angle)
        dx == RSub(vector[1], o[1])
        dy == RSub(vector[2], o[2])
    IN  Vector2(RAdd(RSub(RMul(c, dx), RMul(s, dy)), o[1]),
                RAdd(RAdd(RMul(s, dx), RMul(c, dy)), o[2]))

\* smallest_difference without the wraparound branches
smallest_difference_direct(a, b, max_value) ==
    RSub(RMod(b, max_value), RMod(a, max_value))

smallest_difference(a, b, max_value) ==
    LET mod_a == RMod(a, max_value)
        mod_b == RMod(b, max_value)
    IN  IF RLe(RAbs(RSub(mod_a, mod_b)), RDiv(max_value, R(2)))
        THEN RSub(mod_b, mod_a)
        ELSE IF RLe(mod_b, mod_a)
             THEN RSub(max_value, RAdd(mod_a, mod_b))
             ELSE RSub(RAdd(mod_b, mod_a), max_value)

-----------------------------------------------------------------------------
(* Motion and Pose                                                         *)

Motion(translation, rotation) == [translation |-> translation, rotation |-> rotation]

\* the constructor without the normalisation of the orientation
Pose_unnormalised(position, orientation) ==
    [position |-> position, orientation |-> orientation]

Pose(position, orientation) ==
    [position |-> position, orientation |-> RMod(orientation, TwoPi)]

pose_to_pose_vector(self, to_pose) ==
    rotate_vector(Vector2(RSub(to_pose.position[1], self.position[1]),
                          RSub(to_pose.position[2], self.position[2])),
                  RNeg(self.orientation), None)

calculate_pose_change(self, motion, time) ==
    IF motion.rotation # Zero
    THEN LET final_orientation == RAdd(self.orientation, RMul(motion.rotation, time))
             centre_of_rotation_as_vector ==
                 VDivide(cross(rotate_vector(motion.translation,
                                             RNeg(self.orientation), None)),
                         motion.rotation)
             centre_of_rotation == Point2(centre_of_rotation_as_vector[1],
                                          centre_of_rotation_as_vector[2])
             final_position == rotate_point(self.position, motion.rotation,
                                            centre_of_rotation)
         IN  Pose(final_position, final_orientation)
    ELSE Pose(VAdd(self.position,
                   rotate_vector(motion.translation, RNeg(self.orientation), None)),
              self.orientation)

-----------------------------------------------------------------------------
(* HoloChassis.OmniWheel                                                   *)

\* the value the constructor sees for a keyword argument: the one passed, or
\* the default of the signature
Arg(kw, name, default) == IF name \in DOMAIN kw THEN kw[name] ELSE default

\* the default of the parameter max_speed in the signature of __init__
max_speed_default == Zero

\* a vector, when given, taken whatever else is given
OmniWheel_vector_first(angle, radius, vector) ==
    IF vector # None
    THEN [raised |-> "", vector |-> vector]
    ELSE IF angle # None /\ radius # None
         THEN LET circumference == RMul(TwoPi, radius)
              IN  [raised |-> "",
                   vector |-> Vector2(RMul(sin(angle), circumference),
                                      RMul(cos(angle), circumference))]
         ELSE [raised |-> "ValueError", vector |-> None]

\* the branch of __init__ that sets self.vector, or the exception it raises
OmniWheel_vector(angle, radius, vector) ==
    IF angle = None /\ radius = None /\ vector # None
    THEN [raised |-> "", vector |-> vector]
    ELSE IF angle # None /\ radius # None /\ vector = None
         THEN LET circumference == RMul(TwoPi, radius)
              IN  [raised |-> "",
                   vector |-> Vector2(RMul(sin(angle), circumference),
                                      RMul(cos(angle), circumference))]
         ELSE [raised |-> "ValueError", vector |-> None]

\* OmniWheel(position, **kw): the object constructed, or the exception raised
OmniWheel(position, kw) ==
    LET max_speed == Arg(kw, "max_speed", max_speed_default)
        v == OmniWheel_vector(Arg(kw, "angle", None), Arg(kw, "radius", None),
                              Arg(kw, "vector", None))
        vector_magnitude_squared == magnitude_squared(v.vector)
    IN  IF v.raised # ""
        THEN [raised |-> v.raised, ret |-> None]
        ELSE IF vector_magnitude_squared = Zero
             THEN [raised |-> "ZeroDivisionError", ret |-> None]
             ELSE [raised |-> "",
                   ret |-> [position |-> position,
                            max_speed |-> max_speed,
                            vector |-> v.vector,
                            vector_magnitude_squared |-> vector_magnitude_squared,
                            co_x |-> RDiv(v.vector[1], vector_magnitude_squared),
                            co_y |-> RDiv(v.vector[2], vector_magnitude_squared),
                            co_theta |->
                                RDiv(RSub(RMul(v.vector[1], position[2]),
                                          RMul(v.vector[2], position[1])),
                                     vector_magnitude_squared)]]

speed(self, velocity) == RDiv(dot(velocity, self.vector), self.vector_magnitude_squared)

-----------------------------------------------------------------------------
(* HoloChassis                                                             *)

HoloChassis(ws) ==
    [wheels |-> ws,
     matrix_coefficients |->
         [i \in 1..Len(ws) |-> <<ws[i].co_x, ws[i].co_y, ws[i].co_theta>>]]

\* the default of the parameter origin in the signature of get_wheel_speeds
origin_default == Point2(Zero, Zero)

\* the rotational part taken anti-clockwise
velocity_at_anticlockwise(point, translation, rotation, origin) ==
    LET d == VSub(point, origin)
    IN  VSub(translation, VScale(cross(d), rotation))

velocity_at(point, translation, rotation, origin) ==
    LET d == VSub(point, origin)
    IN  VAdd(VScale(cross(d), rotation), translation)

\* the loop with the speed limit tested by >= in place of >
RECURSIVE scale_loop_ge(_, _, _, _)
scale_loop_ge(wheel_speeds, ws, i, scale) ==
    IF i > Len(ws)
    THEN [raised |-> "", scale |-> scale]
    ELSE IF ws[i].max_speed # None /\ RLe(ws[i].max_speed, RAbs(wheel_speeds[i]))
         THEN IF RAbs(wheel_speeds[i]) = Zero
              THEN [raised |-> "ZeroDivisionError", scale |-> None]
              ELSE LET wheel_scale == RDiv(ws[i].max_speed, RAbs(wheel_speeds[i]))
                   IN  scale_loop_ge(wheel_speeds, ws, i + 1, RMin(scale, wheel_scale))
         ELSE scale_loop_ge(wheel_speeds, ws, i + 1, scale)

\* the loop over zip(wheel_speeds, self.wheels) from wheel i on, with the
\* scale found so far: the final scale, or the exception of the division
RECURSIVE scale_loop(_, _, _, _)
scale_loop(wheel_speeds, ws, i, scale) ==
    IF i > Len(ws)
    THEN [raised |-> "", scale |-> scale]
    ELSE IF ws[i].max_speed # None /\ RLt(ws[i].max_speed, RAbs(wheel_speeds[i]))
         THEN IF RAbs(wheel_speeds[i]) = Zero
              THEN [raised |-> "ZeroDivisionError", scale |-> None]
              ELSE LET wheel_scale == RDiv(ws[i].max_speed, RAbs(wheel_speeds[i]))
                   IN  scale_loop(wheel_speeds, ws, i + 1, RMin(scale, wheel_scale))
         ELSE scale_loop(wheel_speeds, ws, i + 1, scale)

\* the list wheel_speeds of get_wheel_speeds, before any scaling
unscaled_speeds(self, translation, rotation, origin) ==
    [i \in 1..Len(self.wheels) |->
        speed(self.wheels[i],
              velocity_at(self.wheels[i].position, translation, rotation, origin))]

\* the WheelSpeeds returned, or the exception raised
get_wheel_speeds(self, translation, rotation, origin) ==
    LET wheel_speeds == unscaled_speeds(self, translation, rotation, origin)
        loop == scale_loop(wheel_speeds, self.wheels, 1, One)
    IN  IF loop.raised # ""
        THEN [raised |-> loop.raised, ret |-> None]
        ELSE [raised |-> "",
              ret |-> [speeds |-> [i \in 1..Len(wheel_speeds) |->
                                      RMul(wheel_speeds[i], loop.scale)],
                       scaling |-> loop.scale]]

\* the outcome of get_wheel_speeds_from_motion: it reads the attributes x and y
\* of its argument (AttributeError when the object has none) and rotation
get_wheel_speeds_from_motion(self, motion) ==
    IF {"x", "y", "rotation"} \subseteq DOMAIN motion
    THEN get_wheel_speeds(self, Vector2(motion.x, motion.y), motion.rotation,
                          origin_default)
    ELSE [raised |-> "AttributeError", ret |-> None]

\* numpy.linalg.solve(a, b) for a matrix of three columns.  Every equation is
\* first multiplied by a nonzero factor that clears its denominators (this
\* changes no solution and keeps the numbers small), then solved exactly by
\* Cramer's rule.
LCM(i, j) == (i \div GCD(i, j)) * j

RowFactor(row) ==
    LET den == LCM(LCM(row[1][2], row[2][2]), row[3][2])
        num == GCD(GCD(Abs(row[1][1]), Abs(row[2][1])), Abs(row[3][1]))
    IN  IF num = 0 THEN One ELSE Norm(den, num)

Det3(m) ==
    RAdd(RSub(RMul(m[1][1], RSub(RMul(m[2][2], m[3][3]), RMul(m[2][3], m[3][2]))),
              RMul(m[1][2], RSub(RMul(m[2][1], m[3][3]), RMul(m[2][3], m[3][1])))),
         RMul(m[1][3], RSub(RMul(m[2][1], m[3][2]), RMul(m[2][2], m[3][1]))))

ReplaceColumn(m, j, b) ==
    [i \in 1..3 |-> [k \in 1..3 |-> IF k = j THEN b[i] ELSE m[i][k]]]

np_solve(a, b) ==
    IF Len(a) # 3
    THEN [raised |-> "LinAlgError", ret |-> None]
    ELSE IF Len(b) # Len(a)
    THEN [raised |-> "ValueError", ret |-> None]
    ELSE LET m == [i \in 1..3 |-> [k \in 1..3 |-> RMul(a[i][k], RowFactor(a[i]))]]
             rhs == [i \in 1..3 |-> RMul(b[i], RowFactor(a[i]))]
             det == Det3(m)
         IN  IF det = Zero
             THEN [raised |-> "LinAlgError", ret |-> None]
             ELSE [raised |-> "",
                   ret |-> [j \in 1..3 |-> RDiv(Det3(ReplaceColumn(m, j, rhs)), det)]]

\* the Motion returned, or the exception raised
calculate_motion(self, speeds) ==
    LET motion_array == np_solve(self.matrix_coefficients, speeds)
    IN  IF motion_array.raised # ""
        THEN [raised |-> motion_array.raised, ret |-> None]
        ELSE [raised |-> "",
              ret |-> Motion(Vector2(motion_array.ret[1], motion_array.ret[2]),
                             motion_array.ret[3])]

-----------------------------------------------------------------------------
(* Bounds and input sets                                                   *)

\* a and b of smallest_difference range over the tenths -MaxTenths/10 .. MaxTenths/10
MaxTenths == 30

Values == {Norm(k, 10) : k \in -MaxTenths..MaxTenths}

\* moduli: 2.6 and 10 (the docstring's examples), the default 2 * pi, and 1
Moduli == {Norm(26, 10), R(10), TwoPi, One}

-----------------------------------------------------------------------------
(* A driver of smallest_difference: the arguments are drawn at the start,  *)
(* the call is made once.                                                  *)

InitDifference ==
    /\ pc = "call"
    /\ wheels = <<>>
    /\ wheel_args = <<>>
    /\ chassis = None
    /\ pose = None
    /\ steps = 0
    /\ last_speeds = None
    /\ \E a \in Values, b \in Values, max_value \in Moduli :
           call = [op |-> "smallest_difference", args |-> <<a, b, max_value>>,
                   ret |-> None, raised |-> ""]

SmallestDifference ==
    /\ pc = "call"
    /\ call.op = "smallest_difference"
    /\ call' = [call EXCEPT !.ret = smallest_difference(call.args[1], call.args[2],
                                                        call.args[3])]
    /\ pc' = "done"
    /\ UNCHANGED <<wheels, wheel_args, chassis, pose, steps, last_speeds>>

NextDifference == SmallestDifference

SpecDifference == InitDifference /\ [][NextDifference]_vars

SdDone == pc = "done" /\ call.op = "smallest_difference"

SdModA == RMod(call.args[1], call.args[3])

SdModB == RMod(call.args[2], call.args[3])

\* C2: d = smallest_difference(a, b, m) satisfies (a + d) mod m = b mod m and
\* has the smallest magnitude among such deltas (so |d| <= m/2);
\* smallest_difference(1.0, 2.5, 2.6) = -1.1 and smallest_difference(1.0, 2.5, 10) = 1.5.
C2_DeltaReachesB ==
    SdDone =>
        /\ RMod(RAdd(call.args[1], call.ret), call.args[3]) = SdModB
        /\ RLe(RMul(R(2), RAbs(call.ret)), call.args[3])
        /\ call.args = <<One, Norm(25, 10), Norm(26, 10)>> => call.ret = Norm(-11, 10)
        /\ call.args = <<One, Norm(25, 10), R(10)>> => call.ret = Norm(15, 10)

\* C3: the value returned by smallest_difference(a, b, m), m > 0, has magnitude
\* at most m/2, on the direct branch and on both wraparound branches.
C3_MagnitudeAtMostHalf ==
    SdDone => RLe(RMul(R(2), RAbs(call.ret)), call.args[3])

\* a wraparound call with a mod m >= b mod m has returned a nonzero value
C3_Witness ==
    /\ SdDone
    /\ RLt(RDiv(call.args[3], R(2)), RAbs(RSub(SdModA, SdModB)))
    /\ RLe(SdModB, SdModA)
    /\ call.ret # Zero


-----------------------------------------------------------------------------
(* A driver of Pose: a pose is constructed, then advanced by               *)
(* calculate_pose_change (dead reckoning: the result becomes the current   *)
(* pose) at most MaxSteps times, with pose_to_pose_vector queries between. *)

MaxSteps == 2

PosePositions == {V(0, 0), V(1, 0), V(1, 2)}

\* orientations handed to the Pose constructor; -pi/2 is normalised to 3*pi/2
Orientations == {Zero, HalfPi, pi, RNeg(HalfPi)}

\* target poses of pose_to_pose_vector (their orientation is not read)
Targets == {Pose(position, pi) : position \in PosePositions}

Translations == {V(0, 0), V(0, 1), V(2, -1)}

Rotations == {Zero, HalfPi, RNeg(HalfPi)}

Times == {Zero, One, R(2)}

InitPose ==
    /\ pc = "pose"
    /\ wheels = <<>>
    /\ wheel_args = <<>>
    /\ chassis = None
    /\ steps = 0
    /\ last_speeds = None
    /\ \E position \in PosePositions, orientation \in Orientations :
           /\ pose = Pose(position, orientation)
           /\ call = [op |-> "Pose", self |-> None,
                      args |-> <<position, orientation>>,
                      ret |-> Pose(position, orientation), raised |-> ""]

CalculatePoseChange(motion, time) ==
    /\ pc = "pose"
    /\ steps < MaxSteps
    /\ pose' = calculate_pose_change(pose, motion, time)
    /\ call' = [op |-> "calculate_pose_change", self |-> pose,
                args |-> <<motion, time>>, ret |-> pose', raised |-> ""]
    /\ steps' = steps + 1
    /\ UNCHANGED <<pc, wheels, wheel_args, chassis, last_speeds>>

PoseToPoseVector(to_pose) ==
    /\ pc = "pose"
    /\ call' = [op |-> "pose_to_pose_vector", self |-> pose,
                args |-> <<to_pose>>,
                ret |-> pose_to_pose_vector(pose, to_pose), raised |-> ""]
    /\ UNCHANGED <<pc, wheels, wheel_args, chassis, pose, steps, last_speeds>>

NextPose ==
    \/ \E translation \in Translations, rotation \in Rotations, time \in Times :
           CalculatePoseChange(Motion(translation, rotation), time)
    \/ \E to_pose \in Targets : PoseToPoseVector(to_pose)

SpecPose == InitPose /\ [][NextPose]_vars

\* C4: advancing p by Motion(p.pose_to_pose_vector(q), rotation 0) for 1 second
\* yields a pose whose position is q.position, whatever the orientation of p.
C4_VectorReachesTarget ==
    call.op = "pose_to_pose_vector" =>
        calculate_pose_change(call.self, Motion(call.ret, Zero), One).position
            = call.args[1].position

\* C5: in the arc case the new orientation is orientation + rotation * time, the
\* new position is the current position rotated by rotation * time about
\* current position + perpendicular(rotate_vector(translation, -orientation)) / rotation,
\* and so a motion with zero translation leaves the position where it is.
C5_ArcAboutRelativeCentre ==
    (call.op = "calculate_pose_change" /\ call.args[1].rotation # Zero) =>
        LET self == call.self
            motion == call.args[1]
            time == call.args[2]
            centre == VAdd(self.position,
                           VDivide(cross(rotate_vector(motion.translation,
                                                       RNeg(self.orientation), None)),
                                   motion.rotation))
        IN  /\ call.ret.orientation
                   = RMod(RAdd(self.orientation, RMul(motion.rotation, time)), TwoPi)
            /\ call.ret.position
                   = rotate_point(self.position, RMul(motion.rotation, time), centre)
            /\ motion.translation = V(0, 0) => call.ret.position = self.position

ZeroMotion == Motion(V(0, 0), Zero)

\* C11: zero motion is the identity of pose integration: for every pose p, also
\* one produced by earlier calculate_pose_change calls, and every time t,
\* p.calculate_pose_change(Motion((0,0), 0), t) has the position and the
\* orientation of p; the orientation of every pose is normalised in [0, 2*pi).
C11_ZeroMotionIdentity ==
    /\ (call.op = "calculate_pose_change" /\ call.args[1] = ZeroMotion) =>
           /\ call.ret.position = call.self.position
           /\ call.ret.orientation = call.self.orientation
           /\ pose = call.self
    /\ pc = "pose" =>
           /\ RLe(Zero, pose.orientation)
           /\ RLt(pose.orientation, TwoPi)

\* a pose that earlier calls moved and turned was advanced by zero motion for
\* 2 seconds
C11_Witness ==
    /\ call.op = "calculate_pose_change"
    /\ call.args[1] = ZeroMotion
    /\ call.args[2] = R(2)
    /\ steps >= 2
    /\ call.self.position \notin PosePositions
    /\ call.self.orientation # Zero
    /\ pose = call.self

\* C12: pose integration is additive in elapsed time for a constant motion:
\* p.calculate_pose_change(m, t1).calculate_pose_change(m, t2) equals
\* p.calculate_pose_change(m, t1 + t2) for all t1, t2 >= 0; with rotation 0 the
\* position moves by the world-frame translation multiplied by the elapsed time.
C12_AdditiveInTime ==
    call.op = "calculate_pose_change" =>
        LET p == call.self
            m == call.args[1]
            t1 == call.args[2]
        IN  /\ \A t2 \in Times :
                   calculate_pose_change(call.ret, m, t2)
                       = calculate_pose_change(p, m, RAdd(t1, t2))
            /\ m.rotation = Zero =>
                   call.ret.position
                       = VAdd(p.position,
                              VScale(rotate_vector(m.translation,
                                                   RNeg(p.orientation), None), t1))


-----------------------------------------------------------------------------
(* A driver of HoloChassis, in the order of test(): wheels are constructed *)
(* one by one, the chassis is built from them, get_wheel_speeds is asked   *)
(* for one motion, and the speeds it returns are handed to                 *)
(* calculate_motion.  No exception is caught: a call that raises ends the  *)
(* script (pc = "raised").                                                 *)

\* the largest positive max_speed given to a wheel
MaxLimit == 2

\* the contact points the wheels are mounted at, in order: the two of test()
\* and a third off their line
Mounts == <<V(1, 0), V(-1, 0), V(0, 1)>>

Merge(f, g) == [n \in DOMAIN f \cup DOMAIN g |-> IF n \in DOMAIN f THEN f[n] ELSE g[n]]

NoKw == [n \in {} |-> None]

KwMaxSpeed ==
    {NoKw} \cup {[max_speed |-> m] : m \in {None, R(-1)} \cup {R(k) : k \in 1..MaxLimit}}

KwAngle == {NoKw, [angle |-> Zero]}

KwRadius == {NoKw, [radius |-> R(60)]}

KwVector == {NoKw, [vector |-> V(1, 0)], [vector |-> V(0, 0)]}

WheelKw ==
    {Merge(Merge(m, a), Merge(r, v)) :
        m \in KwMaxSpeed, a \in KwAngle, r \in KwRadius, v \in KwVector}

ChassisTranslations == {V(0, 0), V(3, 0), V(0, -1)}

ChassisRotations == {Zero, Norm(1, 2), R(-2)}

KwOrigin == {NoKw, [origin |-> V(1, 0)]}

InitChassis ==
    /\ pc = "build"
    /\ wheels = <<>>
    /\ wheel_args = <<>>
    /\ chassis = None
    /\ pose = None
    /\ steps = 0
    /\ last_speeds = None
    /\ call = [op |-> "", args |-> None, ret |-> None, raised |-> ""]

NewOmniWheel(kw) ==
    /\ pc = "build"
    /\ Len(wheels) < Len(Mounts)
    /\ LET position == Mounts[Len(wheels) + 1]
           made == OmniWheel(position, kw)
       IN  /\ call' = [op |-> "OmniWheel", args |-> <<position, kw>>,
                       ret |-> made.ret, raised |-> made.raised]
           /\ wheels' = IF made.raised = "" THEN Append(wheels, made.ret) ELSE wheels
           /\ wheel_args' = IF made.raised = ""
                            THEN Append(wheel_args, kw) ELSE wheel_args
           /\ pc' = IF made.raised = "" THEN "build" ELSE "raised"
    /\ UNCHANGED <<chassis, pose, steps, last_speeds>>

NewHoloChassis ==
    /\ pc = "build"
    /\ chassis' = HoloChassis(wheels)
    /\ call' = [op |-> "HoloChassis", args |-> <<wheels>>, ret |-> chassis',
                raised |-> ""]
    /\ pc' = "chassis"
    /\ UNCHANGED <<wheels, wheel_args, pose, steps, last_speeds>>

GetWheelSpeeds(translation, rotation, kw) ==
    /\ pc = "chassis"
    /\ LET got == get_wheel_speeds(chassis, translation, rotation,
                                   Arg(kw, "origin", origin_default))
       IN  call' = [op |-> "get_wheel_speeds", args |-> <<translation, rotation, kw>>,
                    ret |-> got.ret, raised |-> got.raised]
    /\ last_speeds' = call'
    /\ pc' = IF call'.raised = "" THEN "speeds" ELSE "raised"
    /\ UNCHANGED <<wheels, wheel_args, chassis, pose, steps>>

GetWheelSpeedsFromMotion(motion) ==
    /\ pc = "chassis"
    /\ LET got == get_wheel_speeds_from_motion(chassis, motion)
       IN  call' = [op |-> "get_wheel_speeds_from_motion", args |-> <<motion>>,
                    ret |-> got.ret, raised |-> got.raised]
    /\ last_speeds' = IF call'.raised = ""
                      THEN [op |-> "get_wheel_speeds",
                            args |-> <<Vector2(motion.x, motion.y), motion.rotation,
                                       NoKw>>,
                            ret |-> call'.ret, raised |-> ""]
                      ELSE last_speeds
    /\ pc' = IF call'.raised = "" THEN "speeds" ELSE "raised"
    /\ UNCHANGED <<wheels, wheel_args, chassis, pose, steps>>

CalculateMotion ==
    /\ pc = "speeds"
    /\ LET got == calculate_motion(chassis, last_speeds.ret.speeds)
       IN  call' = [op |-> "calculate_motion", args |-> <<last_speeds.ret.speeds>>,
                    ret |-> got.ret, raised |-> got.raised]
    /\ pc' = IF call'.raised = "" THEN "motion" ELSE "raised"
    /\ UNCHANGED <<wheels, wheel_args, chassis, pose, steps, last_speeds>>

NextChassis ==
    \/ \E kw \in WheelKw : NewOmniWheel(kw)
    \/ NewHoloChassis
    \/ \E translation \in ChassisTranslations, rotation \in ChassisRotations,
          kw \in KwOrigin : GetWheelSpeeds(translation, rotation, kw)
    \/ \E translation \in ChassisTranslations, rotation \in ChassisRotations :
          GetWheelSpeedsFromMotion(Motion(translation, rotation))
    \/ CalculateMotion

SpecChassis == InitChassis /\ [][NextChassis]_vars


-----------------------------------------------------------------------------
(* Properties of the chassis                                               *)

\* get_wheel_speeds has returned a WheelSpeeds
SpeedsReturned == last_speeds # None /\ last_speeds.raised = ""

ReqTranslation == last_speeds.args[1]

ReqRotation == last_speeds.args[2]

ReqOrigin == Arg(last_speeds.args[3], "origin", origin_default)

DefaultOrigin == "origin" \notin DOMAIN last_speeds.args[3]

\* the speeds before scaling of the request last made
Unscaled == unscaled_speeds(chassis, ReqTranslation, ReqRotation, ReqOrigin)

Limited(i) == wheels[i].max_speed # None

AllBuiltWithoutMaxSpeed ==
    \A i \in 1..Len(wheel_args) : "max_speed" \notin DOMAIN wheel_args[i]

\* the chassis of test(): wheels at (1,0) and (-1,0), angle 0, radius 60
TestChassis ==
    /\ Len(wheels) = 2
    /\ \A i \in 1..2 : wheel_args[i] = [angle |-> Zero, radius |-> R(60)]

\* C1: a chassis whose wheels were all built without max_speed is unconstrained:
\* get_wheel_speeds returns scaling 1 and the unscaled speeds for every request,
\* and for the chassis of test() with translation (0,0), rotation 0.5 the two
\* speeds are nonzero, of equal magnitude and opposite sign.
C1_DefaultWheelUnconstrained ==
    (last_speeds # None /\ AllBuiltWithoutMaxSpeed) =>
        /\ last_speeds.raised = ""
        /\ last_speeds.ret.scaling = One
        /\ last_speeds.ret.speeds = Unscaled
        /\ (TestChassis /\ ReqTranslation = V(0, 0) /\ ReqRotation = Norm(1, 2)
                /\ DefaultOrigin) =>
               /\ last_speeds.ret.speeds[1] # Zero
               /\ last_speeds.ret.speeds[1] = RNeg(last_speeds.ret.speeds[2])

\* C6: the scaling returned by get_wheel_speeds lies in (0, 1], whatever
\* max_speed the wheels carry.
C6_ScalingInHalfOpenUnit ==
    SpeedsReturned =>
        /\ RLt(Zero, last_speeds.ret.scaling)
        /\ RLe(last_speeds.ret.scaling, One)

WithinLimits ==
    \A i \in 1..Len(wheels) :
        Limited(i) => RLe(RAbs(last_speeds.ret.speeds[i]), wheels[i].max_speed)

\* the binding wheel: its unscaled |speed| times s is its limit, and it is
\* returned exactly at its limit
BindingWheelAtLimit ==
    \E i \in 1..Len(wheels) :
        /\ Limited(i)
        /\ RMul(RAbs(Unscaled[i]), last_speeds.ret.scaling) = wheels[i].max_speed
        /\ RAbs(last_speeds.ret.speeds[i]) = wheels[i].max_speed

NoNegativeLimit ==
    \A i \in 1..Len(wheels) : Limited(i) => RLe(Zero, wheels[i].max_speed)

\* C7 as claimed: whenever scaling s < 1 is returned, every limited wheel has
\* |returned speed| <= max_speed, and the binding wheel is exactly at its limit.
C7_Original ==
    (SpeedsReturned /\ RLt(last_speeds.ret.scaling, One)) =>
        (WithinLimits /\ BindingWheelAtLimit)

\* C7 as amended: the same, for a chassis none of whose wheels carries a
\* negative max_speed.
C7_ScaledWithinLimits ==
    (SpeedsReturned /\ RLt(last_speeds.ret.scaling, One) /\ NoNegativeLimit) =>
        (WithinLimits /\ BindingWheelAtLimit)

\* two wheels with different positive limits are both over their limit, and
\* the speeds were scaled back
C7_Witness ==
    /\ SpeedsReturned
    /\ NoNegativeLimit
    /\ RLt(last_speeds.ret.scaling, One)
    /\ \E i, j \in 1..Len(wheels) :
           /\ Limited(i) /\ Limited(j)
           /\ RLt(Zero, wheels[i].max_speed)
           /\ RLt(wheels[i].max_speed, wheels[j].max_speed)
           /\ RLt(wheels[i].max_speed, RAbs(Unscaled[i]))
           /\ RLt(wheels[j].max_speed, RAbs(Unscaled[j]))

\* C8 as claimed: get_wheel_speeds never raises, whatever the max_speed values
\* (None, zero, positive or negative) and the request.
C8_Original ==
    call.op = "get_wheel_speeds" => call.raised = ""

\* C8 as amended: get_wheel_speeds never raises when every max_speed is None,
\* zero or positive; the division is then never made with abs(speed) = 0.
C8_NeverRaises ==
    (call.op = "get_wheel_speeds" /\ NoNegativeLimit) => call.raised = ""

\* a wheel with max_speed 0 was asked for speed 0, and a result was returned
C8_Witness ==
    /\ call.op = "get_wheel_speeds"
    /\ call.raised = ""
    /\ NoNegativeLimit
    /\ \E i \in 1..Len(wheels) :
           /\ wheels[i].max_speed = Zero
           /\ Unscaled[i] = Zero
    /\ \E i \in 1..Len(wheels) :
           /\ Limited(i)
           /\ RLt(wheels[i].max_speed, RAbs(Unscaled[i]))

\* the three rows of the coefficient matrix are linearly independent
NonDegenerate ==
    /\ Len(wheels) = 3
    /\ Det3([i \in 1..3 |->
               [k \in 1..3 |-> RMul(chassis.matrix_coefficients[i][k],
                                    RowFactor(chassis.matrix_coefficients[i]))]])
           # Zero

\* C9: for a chassis of 3 non-degenerate wheels and a request with the default
\* origin that returned scaling 1, calculate_motion of the returned speeds is the
\* requested motion; each unscaled speed is co_x*tx + co_y*ty + co_theta*rotation.
C9_RoundTrip ==
    /\ (SpeedsReturned /\ DefaultOrigin) =>
           \A i \in 1..Len(wheels) :
               Unscaled[i] = RAdd(RAdd(RMul(wheels[i].co_x, ReqTranslation[1]),
                                       RMul(wheels[i].co_y, ReqTranslation[2])),
                                  RMul(wheels[i].co_theta, ReqRotation))
    /\ (/\ pc \in {"motion", "raised"}
        /\ call.op = "calculate_motion"
        /\ NonDegenerate
        /\ DefaultOrigin
        /\ last_speeds.ret.scaling = One) =>
           /\ call.raised = ""
           /\ call.ret = Motion(ReqTranslation, ReqRotation)

\* a motion with translation and rotation went through three non-degenerate
\* wheels and back
C9_Witness ==
    /\ pc = "motion"
    /\ NonDegenerate
    /\ DefaultOrigin
    /\ last_speeds.ret.scaling = One
    /\ ReqTranslation # V(0, 0)
    /\ ReqRotation # Zero
    /\ \A i \in 1..3 : last_speeds.ret.speeds[i] # Zero

Given(kw, name) == Arg(kw, name, None) # None

ExactlyOneSpecification(kw) ==
    \/ Given(kw, "vector") /\ ~Given(kw, "angle") /\ ~Given(kw, "radius")
    \/ ~Given(kw, "vector") /\ Given(kw, "angle") /\ Given(kw, "radius")

\* C10: constructing an OmniWheel succeeds only when exactly one of vector, or
\* angle together with radius, is given; every other combination raises the
\* construction error and produces no wheel.
C10_ExactlyOneSpecification ==
    call.op = "OmniWheel" =>
        /\ call.raised = "" =>
               /\ ExactlyOneSpecification(call.args[2])
               /\ call.ret = wheels[Len(wheels)]
               /\ wheel_args[Len(wheels)] = call.args[2]
        /\ ~ExactlyOneSpecification(call.args[2]) =>
               /\ call.raised = "ValueError"
               /\ call.ret = None
               /\ pc = "raised"
               /\ Len(wheels) = Len(wheel_args)

\* a construction with both a vector and an angle was refused
C10_Witness ==
    /\ call.op = "OmniWheel"
    /\ call.raised = "ValueError"
    /\ Given(call.args[2], "vector")
    /\ Given(call.args[2], "angle")
    /\ ~Given(call.args[2], "radius")

\* C13: get_wheel_speeds_from_motion(motion) does not fail on a Motion and has
\* the outcome of get_wheel_speeds(translation = motion.translation,
\* rotation = motion.rotation) with the default origin: same speeds, same scaling.
C13_FromMotionSameAsGetWheelSpeeds ==
    call.op = "get_wheel_speeds_from_motion" =>
        LET motion == call.args[1]
            direct == get_wheel_speeds(chassis, motion.translation, motion.rotation,
                                       origin_default)
        IN  /\ call.raised # "AttributeError"
            /\ call.raised = direct.raised
            /\ call.ret = direct.ret

=============================================================================
